---- MODULE Spec2Model ----
(***************************************************************************)
(* TaskTracker (src/main.py): the in-memory task store (class Tasks), the  *)
(* JSON persistence adapter (class JsonFile) and the interactive shell     *)
(* (main, add_task, update_task, delete_task, print_list).                 *)
(*                                                                         *)
(* Two specifications share the variables:                                 *)
(*   Spec       a caller driving Tasks.add / Tasks.update / Tasks.delete   *)
(*              directly on a store (empty or as loaded from a file);      *)
(*   ShellSpec  the program as it runs: main() loads the file, then reads  *)
(*              commands, each running to completion before the next.      *)
(*                                                                         *)
(* Strings that the code converts (task ids: int(), str()) are sequences   *)
(* of one-character strings; a datetime is a count of clock ticks and its  *)
(* ISO text is the sequence <<seconds>> or <<seconds, fraction>>.          *)
(***************************************************************************)
EXTENDS Integers, Sequences, FiniteSets, TLC

VARIABLES
    tasks,      \* Tasks.tasks: the store, a sequence of Task records
    file,       \* save/tasks.json: "missing" or the sequence of JSON records
    clock,      \* the last reading of datetime.now()
    pc,         \* where the program is: "api" | "start" | "prompt" | "crashed" | "quit"
    loaded,     \* the store as it was when the run started (after load)
    clock0,     \* the clock reading when the run started
    last,       \* the last operation: its name, arguments and outcome
    prev,       \* Tasks.tasks before the last operation
    prevFile,   \* the file before the last operation
    steps       \* the number of operations so far

vars == <<tasks, file, clock, pc, loaded, clock0, last, prev, prevFile, steps>>

(***************************************************************************)
(* Bounds of the model.                                                    *)
(***************************************************************************)
MaxSteps == 4       \* a run makes at most this many calls of the store's operations
MaxClock == 1       \* the clock does not advance past this tick
TicksPerSec == 2    \* clock ticks per second (the fraction field of the ISO text)

(***************************************************************************)
(* Strings as character sequences; Python's int() and str() on them.       *)
(***************************************************************************)
Digits == <<"0", "1", "2", "3", "4", "5", "6", "7", "8", "9">>

IsDigit(c) == \E d \in 1..10 : Digits[d] = c

DigitVal(c) == (CHOOSE d \in 1..10 : Digits[d] = c) - 1

\* int(s) raises ValueError unless s is a non-empty run of decimal digits
\* (over the alphabet of the model: digits and the letter "x").
IsNumeric(s) == Len(s) > 0 /\ \A i \in 1..Len(s) : IsDigit(s[i])

RECURSIVE IntOf(_)
IntOf(s) ==
    IF Len(s) = 0 THEN 0
    ELSE IntOf(SubSeq(s, 1, Len(s) - 1)) * 10 + DigitVal(s[Len(s)])

RECURSIVE StrOf(_)
StrOf(n) ==
    IF n < 10 THEN <<Digits[n + 1]>>
    ELSE StrOf(n \div 10) \o <<Digits[(n % 10) + 1]>>

\* str.lower() on the status strings a user may type.
Lower(s) ==
    CASE s = "DONE" -> "done"
      [] s = "Todo" -> "todo"
      [] OTHER -> s

(***************************************************************************)
(* Task (dataclass) and class Tasks.                                       *)
(***************************************************************************)
Task(id, description, status, createdAt, updatedAt) ==
    [id |-> id, description |-> description, status |-> status,
     createdAt |-> createdAt, updatedAt |-> updatedAt]

Ids(ts) == {ts[i].id : i \in 1..Len(ts)}

\* any(t.id == task.id for t in self.tasks)
IdTaken(ts, id) == \E i \in 1..Len(ts) : ts[i].id = id

\* `not task.id or any(...)`: the condition of line 37
NeedsNewId(ts, task) == task.id = <<>> \/ IdTaken(ts, task.id)

\* max(int(t.id) for t in self.tasks) raises ValueError on an empty store
\* (max of an empty sequence) and on an id int() cannot parse.
MaxRaises(ts) == Len(ts) = 0 \/ \E i \in 1..Len(ts) : ~IsNumeric(ts[i].id)

MaxIntId(ts) ==
    CHOOSE m \in {IntOf(ts[i].id) : i \in 1..Len(ts)} :
        \A i \in 1..Len(ts) : IntOf(ts[i].id) <= m

\* Mutant of NewId: the largest id itself, the + 1 forgotten.
NewIdNoIncrement(ts) == StrOf(MaxIntId(ts))

NewId(ts) == StrOf(MaxIntId(ts) + 1)

\* Mutant of add: on a taken id the new id goes to the tasks that had it.
addRenamesStored(ts, task) ==
    IF NeedsNewId(ts, task)
    THEN IF MaxRaises(ts)
         THEN [raised |-> TRUE, tasks |-> ts]
         ELSE IF task.id = <<>>
         THEN [raised |-> FALSE,
               tasks |-> Append(ts, [task EXCEPT !.id = NewId(ts)])]
         ELSE [raised |-> FALSE,
               tasks |-> Append([i \in 1..Len(ts) |->
                                    IF ts[i].id = task.id
                                    THEN [ts[i] EXCEPT !.id = NewId(ts)]
                                    ELSE ts[i]], task)]
    ELSE [raised |-> FALSE, tasks |-> Append(ts, task)]

\* Tasks.add: [raised, tasks]; on ValueError the store is as it was.
add(ts, task) ==
    IF NeedsNewId(ts, task)
    THEN IF MaxRaises(ts)
         THEN [raised |-> TRUE, tasks |-> ts]
         ELSE [raised |-> FALSE,
               tasks |-> Append(ts, [task EXCEPT !.id = NewId(ts)])]
    ELSE [raised |-> FALSE, tasks |-> Append(ts, task)]

\* The index of the first task whose id is task_id, 0 when there is none:
\* the `for ... if task.id == task_id` scans of update and delete.
FirstIndex(ts, task_id) ==
    IF IdTaken(ts, task_id)
    THEN CHOOSE i \in 1..Len(ts) :
            /\ ts[i].id = task_id
            /\ \A j \in 1..(i - 1) : ts[j].id # task_id
    ELSE 0

\* setattr(task, key, value) for key, value in kwargs.items(), where kwargs
\* is a function from a subset of {"description", "status"}.
SetAttrs(task, kwargs) ==
    [k \in DOMAIN task |-> IF k \in DOMAIN kwargs THEN kwargs[k] ELSE task[k]]

\* Mutant of update: updatedAt is refreshed after the loop, on the task the
\* loop variable was left at, when no task matched.
updateTouchesLast(ts, task_id, kwargs, now) ==
    LET i == FirstIndex(ts, task_id) IN
    IF i = 0
    THEN [ret |-> FALSE,
          tasks |-> IF Len(ts) = 0 THEN ts
                    ELSE [ts EXCEPT ![Len(ts)].updatedAt = now]]
    ELSE [ret |-> TRUE,
          tasks |-> [ts EXCEPT ![i] =
                        [SetAttrs(ts[i], kwargs) EXCEPT !.updatedAt = now]]]

\* Mutant of update: no return after the first match, every task with the id
\* is updated.
updateAllMatching(ts, task_id, kwargs, now) ==
    [ret |-> IdTaken(ts, task_id),
     tasks |-> [i \in 1..Len(ts) |->
                  IF ts[i].id = task_id
                  THEN [SetAttrs(ts[i], kwargs) EXCEPT !.updatedAt = now]
                  ELSE ts[i]]]

\* Tasks.update: [ret, tasks]; now is the reading of datetime.now() (line 46).
update(ts, task_id, kwargs, now) ==
    LET i == FirstIndex(ts, task_id) IN
    IF i = 0
    THEN [ret |-> FALSE, tasks |-> ts]
    ELSE [ret |-> TRUE,
          tasks |-> [ts EXCEPT ![i] =
                        [SetAttrs(ts[i], kwargs) EXCEPT !.updatedAt = now]]]

\* del self.tasks[i]
RemoveAt(ts, i) == SubSeq(ts, 1, i - 1) \o SubSeq(ts, i + 1, Len(ts))

\* Mutant of delete: the last task is removed when no task matched.
deleteOrLast(ts, task_id) ==
    LET i == FirstIndex(ts, task_id) IN
    IF i = 0
    THEN [ret |-> FALSE, tasks |-> SubSeq(ts, 1, Len(ts) - 1)]
    ELSE [ret |-> TRUE, tasks |-> RemoveAt(ts, i)]

\* Mutant of delete: the last task with the id is removed, not the first.
deleteLastMatch(ts, task_id) ==
    IF ~IdTaken(ts, task_id)
    THEN [ret |-> FALSE, tasks |-> ts]
    ELSE [ret |-> TRUE,
          tasks |-> RemoveAt(ts, CHOOSE i \in 1..Len(ts) :
                                    /\ ts[i].id = task_id
                                    /\ \A j \in (i + 1)..Len(ts) : ts[j].id # task_id)]

\* Tasks.delete: [ret, tasks].
delete(ts, task_id) ==
    LET i == FirstIndex(ts, task_id) IN
    IF i = 0
    THEN [ret |-> FALSE, tasks |-> ts]
    ELSE [ret |-> TRUE, tasks |-> RemoveAt(ts, i)]

(***************************************************************************)
(* Tasks.list: filter by status, then a stable sort on one field.          *)
(***************************************************************************)
\* Python's order on the values of the field order_by: datetimes by time,
\* strings by code point (digits before letters, character by character).
StrRank(s) ==
    CASE s = "" -> 0
      [] s = "a" -> 1
      [] s = "b" -> 2
      [] s = "bogus" -> 3
      [] s = "done" -> 4
      [] s = "in_progress" -> 5
      [] s = "todo" -> 6

CharRank(c) == IF IsDigit(c) THEN DigitVal(c) ELSE 10

RECURSIVE SeqLess(_, _)
SeqLess(a, b) ==
    IF Len(b) = 0 THEN FALSE
    ELSE IF Len(a) = 0 THEN TRUE
    ELSE IF CharRank(a[1]) # CharRank(b[1]) THEN CharRank(a[1]) < CharRank(b[1])
    ELSE SeqLess(Tail(a), Tail(b))

KeyLess(order_by, x, y) ==
    CASE order_by \in {"createdAt", "updatedAt"} -> x[order_by] < y[order_by]
      [] order_by \in {"description", "status"} -> StrRank(x[order_by]) < StrRank(y[order_by])
      [] order_by = "id" -> SeqLess(x.id, y.id)

\* [task for task in self.tasks if task.status == status]
RECURSIVE FilterStatus(_, _)
FilterStatus(ts, status) ==
    IF Len(ts) = 0 THEN <<>>
    ELSE IF ts[1].status = status
         THEN <<ts[1]>> \o FilterStatus(Tail(ts), status)
         ELSE FilterStatus(Tail(ts), status)

\* Mutant of InsertSorted: with reverse, x goes before the elements whose key
\* equals its own (ties come out in reverse store order).
RECURSIVE InsertSortedUnstable(_, _, _, _)
InsertSortedUnstable(s, x, order_by, ascending) ==
    IF Len(s) = 0 THEN <<x>>
    ELSE IF (IF ascending THEN KeyLess(order_by, x, s[1])
                          ELSE ~KeyLess(order_by, x, s[1]))
         THEN <<x>> \o s
         ELSE <<s[1]>> \o InsertSortedUnstable(Tail(s), x, order_by, ascending)

\* Insert x into the sorted sequence s after every element that does not come
\* after it: with reverse, after every element whose key is >= x's.
RECURSIVE InsertSorted(_, _, _, _)
InsertSorted(s, x, order_by, ascending) ==
    IF Len(s) = 0 THEN <<x>>
    ELSE IF (IF ascending THEN KeyLess(order_by, x, s[1])
                          ELSE KeyLess(order_by, s[1], x))
         THEN <<x>> \o s
         ELSE <<s[1]>> \o InsertSorted(Tail(s), x, order_by, ascending)

\* sorted(xs, key=..., reverse=not ascending): stable in both directions.
RECURSIVE Sorted(_, _, _)
Sorted(xs, order_by, ascending) ==
    IF Len(xs) = 0 THEN <<>>
    ELSE InsertSorted(Sorted(SubSeq(xs, 1, Len(xs) - 1), order_by, ascending),
                      xs[Len(xs)], order_by, ascending)

\* Tasks.list; status "" stands for None (both are falsy at line 62).
list(ts, order_by, ascending, status) ==
    IF Len(ts) = 0 THEN <<>>
    ELSE Sorted(IF status # "" THEN FilterStatus(ts, status) ELSE ts,
                order_by, ascending)

\* Mutant of list_returns: without a filter the store's own list is sorted in
\* place and returned (the copy of line 65 forgotten).
list_returns_store(ts, order_by, ascending, status) ==
    IF Len(ts) > 0 /\ status = "" THEN "store" ELSE "fresh"

\* Which list object Tasks.list returns: [] (line 61) or the list sorted()
\* builds from the comprehension or the copy (lines 63-70); on every path a
\* new list, never self.tasks itself.
list_returns(ts, order_by, ascending, status) == "fresh"

(***************************************************************************)
(* class JsonFile.  The file is [dir, exists, data]: whether the save      *)
(* directory exists, whether tasks.json exists, and its JSON records.      *)
(***************************************************************************)
\* Python's None, for a Task built without an updatedAt.
None == -1

\* Mutant of IsoFormat: the text is cut to whole seconds.
IsoFormatSeconds(t) == <<t \div TicksPerSec>>

\* datetime.isoformat(): the fraction is written only when it is not zero.
IsoFormat(t) ==
    IF t % TicksPerSec = 0
    THEN <<t \div TicksPerSec>>
    ELSE <<t \div TicksPerSec, t % TicksPerSec>>

\* datetime.fromisoformat() raises ValueError on text it cannot parse ("" too).
IsoParses(text) ==
    /\ Len(text) \in {1, 2}
    /\ Len(text) = 2 => text[2] \in 0..(TicksPerSec - 1)

FromIsoFormat(text) ==
    IF Len(text) = 1 THEN text[1] * TicksPerSec
    ELSE text[1] * TicksPerSec + text[2]

\* One record as JsonFile.save writes it (lines 117-125); a datetime is truthy.
ToRecord(task) ==
    [id |-> task.id, description |-> task.description, status |-> task.status,
     createdAt |-> IsoFormat(task.createdAt),
     updatedAt |-> IF task.updatedAt \in Nat THEN IsoFormat(task.updatedAt) ELSE <<>>]

\* task.get(key, default)
Get(rec, key, default) == IF key \in DOMAIN rec THEN rec[key] ELSE default

\* Building one Task raises KeyError without "id" and ValueError on a timestamp
\* that does not parse (a missing one is parsed from "").
RecordRaises(rec) ==
    \/ "id" \notin DOMAIN rec
    \/ ~IsoParses(Get(rec, "createdAt", <<>>))
    \/ ~IsoParses(Get(rec, "updatedAt", <<>>))

FromRecord(rec) ==
    Task(rec["id"], Get(rec, "description", ""), Get(rec, "status", "todo"),
         FromIsoFormat(Get(rec, "createdAt", <<>>)),
         FromIsoFormat(Get(rec, "updatedAt", <<>>)))

\* Mutant of create: nothing is written.
createNothing(f) == f

\* JsonFile.create: writes [] ; an error (no save directory) is printed only.
create(f) == IF f.dir THEN [f EXCEPT !.exists = TRUE, !.data = <<>>] ELSE f

\* Mutant of load: a record that cannot be built is skipped.
loadSkipsMalformed(f) ==
    IF ~f.exists
    THEN [raised |-> FALSE, tasks |-> <<>>, file |-> create(f)]
    ELSE [raised |-> FALSE,
          tasks |-> LET good == SelectSeq(f.data, LAMBDA rec : ~RecordRaises(rec))
                    IN  [i \in 1..Len(good) |-> FromRecord(good[i])],
          file |-> f]

\* JsonFile.load: [raised, tasks, file].
load(f) ==
    IF ~f.exists
    THEN [raised |-> FALSE, tasks |-> <<>>, file |-> create(f)]
    ELSE IF \E i \in 1..Len(f.data) : RecordRaises(f.data[i])
         THEN [raised |-> TRUE, tasks |-> <<>>, file |-> f]
         ELSE [raised |-> FALSE,
               tasks |-> [i \in 1..Len(f.data) |-> FromRecord(f.data[i])],
               file |-> f]

\* Mutant of save: an empty list is not written.
saveUnlessEmpty(f, ts) ==
    IF ~f.dir THEN [raised |-> TRUE, file |-> f]
    ELSE IF ts = <<>> THEN [raised |-> FALSE, file |-> f]
    ELSE [raised |-> FALSE,
          file |-> [f EXCEPT !.exists = TRUE,
                             !.data = [i \in 1..Len(ts) |-> ToRecord(ts[i])]]]

\* JsonFile.save: [raised, file]; open(..., "w") raises without the directory.
save(f, ts) ==
    IF ~f.dir
    THEN [raised |-> TRUE, file |-> f]
    ELSE [raised |-> FALSE,
          file |-> [f EXCEPT !.exists = TRUE,
                             !.data = [i \in 1..Len(ts) |-> ToRecord(ts[i])]]]

(***************************************************************************)
(* Inputs: what a caller or the user may supply.                           *)
(***************************************************************************)
\* What datetime.now() may return after it returned c: the same tick or a
\* later one (the clock does not go backwards).
Readings(c) == {t \in {c, c + 1} : t <= MaxClock}

IdInputs == {<<>>, <<"8">>, <<"9">>, <<"x">>}

Statuses == {"todo", "in_progress", "done"}

EmptyKw == [k \in {} |-> ""]

\* The keyword arguments of Tasks.update: description and/or status.
KwInputs ==
    {[description |-> "b"], [status |-> "done"],
     [description |-> "b", status |-> "done"]}

NoTask == Task(<<>>, "", "", 0, 0)

NoFile == [dir |-> TRUE, exists |-> FALSE, data |-> <<>>]

\* Stores as JsonFile.load may return them.
InitStores ==
    { <<>>,
      <<Task(<<"8">>, "a", "todo", 0, 0), Task(<<"9">>, "a", "in_progress", 0, 0)>>,
      <<Task(<<"0", "9">>, "a", "todo", 0, 0), Task(<<"9">>, "b", "done", 0, 0)>>,
      <<Task(<<"x">>, "a", "todo", 0, 0), Task(<<"9">>, "b", "todo", 0, 0)>>,
      <<Task(<<"9">>, "a", "todo", 0, 0), Task(<<"9">>, "b", "done", 0, 0)>> }

\* The record kept of an operation: its arguments, what it returned or that
\* it raised, and what it printed.
Op(op, id, kwargs, task, ret, raised, out) ==
    [op |-> op, id |-> id, kwargs |-> kwargs, task |-> task, ret |-> ret,
     raised |-> raised, out |-> out]

(***************************************************************************)
(* Spec: a caller of the store's operations.                               *)
(***************************************************************************)
Init ==
    /\ tasks \in InitStores
    /\ loaded = tasks
    /\ file = NoFile
    /\ clock = 0
    /\ clock0 = 0
    /\ pc = "api"
    /\ last = Op("init", <<>>, EmptyKw, NoTask, "None", FALSE, <<>>)
    /\ prev = tasks
    /\ prevFile = file
    /\ steps = 0

\* A call of Tasks.add(task).
CallAdd ==
    /\ pc = "api"
    /\ steps < MaxSteps
    /\ steps' = steps + 1
    /\ \E id \in IdInputs :
        LET task == Task(id, "a", "todo", clock, clock)
            r == add(tasks, task)
        IN  /\ tasks' = r.tasks
            /\ last' = Op("add", id, EmptyKw, task,
                          IF r.raised THEN "raise" ELSE "None", r.raised, <<>>)
    /\ prev' = tasks
    /\ prevFile' = file
    /\ UNCHANGED <<file, clock, pc, loaded, clock0>>

\* A call of Tasks.update(task_id, **kwargs); datetime.now() is read only
\* when a task matches.
CallUpdate ==
    /\ pc = "api"
    /\ steps < MaxSteps
    /\ steps' = steps + 1
    /\ \E id \in IdInputs, kw \in KwInputs, now \in Readings(clock) :
        LET r == update(tasks, id, kw, now)
        IN  /\ ~IdTaken(tasks, id) => now = clock
            /\ tasks' = r.tasks
            /\ clock' = now
            /\ last' = Op("update", id, kw, NoTask,
                          IF r.ret THEN "True" ELSE "False", FALSE, <<>>)
    /\ prev' = tasks
    /\ prevFile' = file
    /\ UNCHANGED <<file, pc, loaded, clock0>>

\* A call of Tasks.delete(task_id).
CallDelete ==
    /\ pc = "api"
    /\ steps < MaxSteps
    /\ steps' = steps + 1
    /\ \E id \in IdInputs :
        LET r == delete(tasks, id)
        IN  /\ tasks' = r.tasks
            /\ last' = Op("delete", id, EmptyKw, NoTask,
                          IF r.ret THEN "True" ELSE "False", FALSE, <<>>)
    /\ prev' = tasks
    /\ prevFile' = file
    /\ UNCHANGED <<file, clock, pc, loaded, clock0>>

Next == CallAdd \/ CallUpdate \/ CallDelete

Spec == Init /\ [][Next]_vars

(***************************************************************************)
(* ShellSpec: main() and its commands.                                     *)
(***************************************************************************)
Rec(id, description, status, createdAt, updatedAt) ==
    [id |-> id, description |-> description, status |-> status,
     createdAt |-> createdAt, updatedAt |-> updatedAt]

\* What may be on disk when the program starts.
InitFiles ==
    { NoFile,
      [dir |-> FALSE, exists |-> FALSE, data |-> <<>>],
      [dir |-> TRUE, exists |-> TRUE, data |-> <<>>],
      [dir |-> TRUE, exists |-> TRUE,
       data |-> <<Rec(<<"8">>, "a", "todo", <<0>>, <<0>>),
                  Rec(<<"9">>, "b", "in_progress", <<0>>, <<0>>)>>],
      \* a record dated after the clock's reading at startup
      [dir |-> TRUE, exists |-> TRUE,
       data |-> <<Rec(<<"9">>, "a", "todo", <<1>>, <<1>>)>>],
      \* a record without description and status
      [dir |-> TRUE, exists |-> TRUE,
       data |-> <<[id |-> <<"8">>, createdAt |-> <<0>>, updatedAt |-> <<0>>]>>],
      \* a status outside the three, an id that is no number
      [dir |-> TRUE, exists |-> TRUE,
       data |-> <<Rec(<<"x">>, "a", "bogus", <<0>>, <<0>>)>>],
      \* an empty updatedAt
      [dir |-> TRUE, exists |-> TRUE,
       data |-> <<Rec(<<"9">>, "a", "todo", <<0>>, <<>>)>>],
      \* a record without id
      [dir |-> TRUE, exists |-> TRUE,
       data |-> <<[description |-> "a", status |-> "todo",
                   createdAt |-> <<0>>, updatedAt |-> <<0>>]>>],
      \* a good record, then one whose createdAt is no date
      [dir |-> TRUE, exists |-> TRUE,
       data |-> <<Rec(<<"8">>, "a", "todo", <<0>>, <<0>>),
                  Rec(<<"9">>, "b", "done", <<0, 0, 0>>, <<0>>)>>],
      \* a good record, then one without updatedAt
      [dir |-> TRUE, exists |-> TRUE,
       data |-> <<Rec(<<"8">>, "a", "todo", <<0>>, <<0>>),
                  [id |-> <<"9">>, description |-> "b", status |-> "done",
                   createdAt |-> <<0>>]>>] }

DescInputs == {"", "b"}

StatusInputs == {"done", "DONE", "bogus", ""}

ListInputs == {"", "todo", "in_progress", "done"}

\* Mutant of NewTask: the two readings of the clock exchanged.
NewTaskSwapped(description, now1, now2) ==
    Task(<<>>, description, "todo", now2, now1)

\* Lines 184-190: the Task add_task builds from two readings of the clock.
NewTask(description, now1, now2) == Task(<<>>, description, "todo", now1, now2)

\* Mutant of ValidStatus: every status is accepted.
ValidStatusAny(new_status) == TRUE

\* Mutant of ValidStatus: any status that is not blank passes.
ValidStatusNonBlank(new_status) == new_status # ""

\* Line 206: new_status in ["todo", "in_progress", "done"]
ValidStatus(new_status) == new_status \in {"todo", "in_progress", "done"}

\* Mutant of NewDescription: the entered text is taken as it is.
NewDescriptionEntered(description, task) == description

\* Lines 201-204: input(...) or task.description
NewDescription(description, task) ==
    IF description # "" THEN description ELSE task.description

ShellInit ==
    /\ file \in InitFiles
    /\ tasks = <<>>
    /\ loaded = <<>>
    /\ clock = 0
    /\ clock0 = 0
    /\ pc = "start"
    /\ last = Op("init", <<>>, EmptyKw, NoTask, "None", FALSE, <<>>)
    /\ prev = tasks
    /\ prevFile = file
    /\ steps = 0

\* main, lines 147-149: tasks.tasks = json_file.load(); an exception ends the
\* program.
main_load ==
    /\ pc = "start"
    /\ LET r == load(file)
       IN  /\ tasks' = r.tasks
           /\ loaded' = r.tasks
           /\ file' = r.file
           /\ pc' = IF r.raised THEN "crashed" ELSE "prompt"
           /\ last' = Op("load", <<>>, EmptyKw, NoTask,
                         IF r.raised THEN "raise" ELSE "None", r.raised, <<>>)
    /\ prev' = tasks
    /\ prevFile' = file
    /\ UNCHANGED <<clock, clock0, steps>>

\* add_task: two readings of the clock, Tasks.add, JsonFile.save.
add_task ==
    /\ pc = "prompt"
    /\ steps < MaxSteps
    /\ steps' = steps + 1
    /\ \E description \in {"a"}, now1 \in Readings(clock) :
       \E now2 \in Readings(now1) :
        LET new_task == NewTask(description, now1, now2)
            r == add(tasks, new_task)
            s == save(file, r.tasks)
        IN  /\ clock' = now2
            /\ tasks' = r.tasks
            /\ file' = IF r.raised THEN file ELSE s.file
            /\ pc' = IF r.raised \/ s.raised THEN "crashed" ELSE "prompt"
            /\ last' = Op("add_task", <<>>, EmptyKw, new_task,
                          IF r.raised \/ s.raised THEN "raise" ELSE "None",
                          r.raised \/ s.raised, <<>>)
    /\ prev' = tasks
    /\ prevFile' = file
    /\ UNCHANGED <<loaded, clock0>>

\* update_task: the id is looked up, a blank description keeps the old one,
\* the status is lower-cased and checked, then Tasks.update and JsonFile.save.
update_task ==
    /\ pc = "prompt"
    /\ steps < MaxSteps
    /\ steps' = steps + 1
    /\ \E task_id \in IdInputs, description \in DescInputs,
          status \in StatusInputs, now \in Readings(clock) :
        LET found == IdTaken(tasks, task_id)
            task == tasks[FirstIndex(tasks, task_id)]
            new_description == NewDescription(description, task)
            new_status == Lower(status)
            r == update(tasks, task_id,
                        [description |-> new_description, status |-> new_status],
                        now)
            s == save(file, r.tasks)
            inputs == [description |-> description, status |-> status]
        IN  IF ~found
            THEN /\ now = clock /\ description = "" /\ status = ""
                 /\ last' = Op("update_task", task_id, EmptyKw, NoTask,
                               "not_found", FALSE, <<>>)
                 /\ UNCHANGED <<tasks, file, clock, pc>>
            ELSE IF ~ValidStatus(new_status)
            THEN /\ now = clock
                 /\ last' = Op("update_task", task_id, inputs, NoTask,
                               "invalid_status", FALSE, <<>>)
                 /\ UNCHANGED <<tasks, file, clock, pc>>
            ELSE /\ tasks' = r.tasks
                 /\ clock' = now
                 /\ file' = s.file
                 /\ pc' = IF s.raised THEN "crashed" ELSE "prompt"
                 /\ last' = Op("update_task", task_id, inputs, NoTask,
                               IF s.raised THEN "raise" ELSE "updated", s.raised, <<>>)
    /\ prev' = tasks
    /\ prevFile' = file
    /\ UNCHANGED <<loaded, clock0>>

\* delete_task: Tasks.delete, then JsonFile.save whatever delete returned.
delete_task ==
    /\ pc = "prompt"
    /\ steps < MaxSteps
    /\ steps' = steps + 1
    /\ \E task_id \in IdInputs :
        LET r == delete(tasks, task_id)
            s == save(file, r.tasks)
        IN  /\ tasks' = r.tasks
            /\ file' = s.file
            /\ pc' = IF s.raised THEN "crashed" ELSE "prompt"
            /\ last' = Op("delete_task", task_id, EmptyKw, NoTask,
                          IF s.raised THEN "raise"
                          ELSE IF r.ret THEN "True" ELSE "False", s.raised, <<>>)
    /\ prev' = tasks
    /\ prevFile' = file
    /\ UNCHANGED <<clock, loaded, clock0>>

\* print_list: tasks.list(status=status) with the default order, printed.
print_list ==
    /\ pc = "prompt"
    /\ steps < MaxSteps
    /\ steps' = steps + 1
    /\ \E status \in ListInputs :
        last' = Op("print_list", <<>>, [status |-> status], NoTask, "None", FALSE,
                     list(tasks, "createdAt", TRUE, status))
    /\ prev' = tasks
    /\ prevFile' = file
    /\ UNCHANGED <<tasks, file, clock, pc, loaded, clock0>>

\* The else branch of main's loop: "Invalid command. Please try again."
invalid_command ==
    /\ pc = "prompt"
    /\ steps < MaxSteps
    /\ steps' = steps + 1
    /\ last' = Op("invalid", <<>>, EmptyKw, NoTask, "None", FALSE, <<>>)
    /\ prev' = tasks
    /\ prevFile' = file
    /\ UNCHANGED <<tasks, file, clock, pc, loaded, clock0>>

\* "quit" leaves the loop.
quit ==
    /\ pc = "prompt"
    /\ pc' = "quit"
    /\ last' = Op("quit", <<>>, EmptyKw, NoTask, "None", FALSE, <<>>)
    /\ prev' = tasks
    /\ prevFile' = file
    /\ UNCHANGED <<tasks, file, clock, loaded, clock0, steps>>

ShellNext ==
    \/ main_load
    \/ add_task
    \/ update_task
    \/ delete_task
    \/ print_list
    \/ invalid_command
    \/ quit

ShellSpec == ShellInit /\ [][ShellNext]_vars

(***************************************************************************)
(* ListSpec: a caller of Tasks.list, who may then reorder the list it got. *)
(***************************************************************************)
OrderInputs == {"id", "description", "status", "createdAt", "updatedAt"}

FilterInputs == {"", "todo", "in_progress", "done"}

\* Tasks with equal keys on every field that list may sort by.
ListTasks ==
    { Task(<<"9">>, "b", "todo", 0, 1),
      Task(<<"1", "0">>, "a", "done", 0, 0),
      Task(<<"8">>, "a", "todo", 1, 1),
      Task(<<"1", "0">>, "b", "in_progress", 1, 1) }

ListStores ==
    {<<>>} \cup {<<a>> : a \in ListTasks}
           \cup {<<a, b>> : a \in ListTasks, b \in ListTasks}
           \cup {<<a, b, c>> : a \in ListTasks, b \in ListTasks, c \in ListTasks}

Reverse(s) == [i \in 1..Len(s) |-> s[Len(s) + 1 - i]]

ListInit ==
    /\ tasks \in ListStores
    /\ loaded = tasks
    /\ file = NoFile
    /\ clock = 0
    /\ clock0 = 0
    /\ pc = "api"
    /\ last = Op("init", <<>>, EmptyKw, NoTask, "None", FALSE, <<>>)
    /\ prev = tasks
    /\ prevFile = file
    /\ steps = 0

\* A call of Tasks.list(order_by, ascending, status).  Were the list returned
\* the store's own, the store would be what the sort left.
CallList ==
    /\ pc = "api"
    /\ steps < MaxSteps
    /\ steps' = steps + 1
    /\ \E order_by \in OrderInputs, ascending \in BOOLEAN, status \in FilterInputs :
        LET out == list(tasks, order_by, ascending, status)
            ref == list_returns(tasks, order_by, ascending, status)
        IN  /\ tasks' = IF ref = "store" THEN out ELSE tasks
            /\ last' = Op("list", <<>>,
                          [order_by |-> order_by, ascending |-> ascending,
                           status |-> status],
                          NoTask, ref, FALSE, out)
    /\ prev' = tasks
    /\ prevFile' = file
    /\ UNCHANGED <<file, clock, pc, loaded, clock0>>

\* The caller reverses, in place, the list the last call of list returned.
CallerReorders ==
    /\ pc = "api"
    /\ steps < MaxSteps
    /\ steps' = steps + 1
    /\ last.op = "list"
    /\ tasks' = IF last.ret = "store" THEN Reverse(last.out) ELSE tasks
    /\ last' = [last EXCEPT !.op = "reorder", !.out = Reverse(last.out)]
    /\ prev' = tasks
    /\ prevFile' = file
    /\ UNCHANGED <<file, clock, pc, loaded, clock0>>

ListNext == CallList \/ CallerReorders

ListSpec == ListInit /\ [][ListNext]_vars

(***************************************************************************)
(* FileSpec: a caller of JsonFile.save and JsonFile.load on one list of    *)
(* tasks.  pc is "saved" once save has written the file.                   *)
(***************************************************************************)
\* The lists a caller may hand to save.
SaveStores ==
    { <<>>,
      <<Task(<<"9">>, "a", "todo", 0, 1)>>,
      <<Task(<<"8">>, "b", "done", 2, 3), Task(<<"x">>, "", "in_progress", 1, 1)>>,
      <<Task(<<"1", "0">>, "a", "todo", 1, 1), Task(<<"9">>, "a", "todo", 1, None)>> }

FileInit ==
    /\ file \in InitFiles
    /\ tasks \in SaveStores
    /\ loaded = <<>>
    /\ clock = 0
    /\ clock0 = 0
    /\ pc = "file"
    /\ last = Op("init", <<>>, EmptyKw, NoTask, "None", FALSE, <<>>)
    /\ prev = tasks
    /\ prevFile = file
    /\ steps = 0

\* A call of JsonFile.save(tasks).
CallSave ==
    /\ pc \in {"file", "saved"}
    /\ steps < MaxSteps
    /\ steps' = steps + 1
    /\ LET s == save(file, tasks)
       IN  /\ file' = s.file
           /\ pc' = IF s.raised THEN pc ELSE "saved"
           /\ last' = Op("save", <<>>, EmptyKw, NoTask,
                         IF s.raised THEN "raise" ELSE "None", s.raised, <<>>)
    /\ prev' = tasks
    /\ prevFile' = file
    /\ UNCHANGED <<tasks, clock, loaded, clock0>>

\* A call of JsonFile.load(); last.out is the list it returned.
CallLoad ==
    /\ pc \in {"file", "saved"}
    /\ steps < MaxSteps
    /\ steps' = steps + 1
    /\ LET r == load(file)
       IN  /\ file' = r.file
           /\ last' = Op("load", <<>>, EmptyKw, NoTask,
                         IF r.raised THEN "raise" ELSE "None", r.raised, r.tasks)
    /\ prev' = tasks
    /\ prevFile' = file
    /\ UNCHANGED <<tasks, clock, pc, loaded, clock0>>

FileNext == CallSave \/ CallLoad

FileSpec == FileInit /\ [][FileNext]_vars

(***************************************************************************)
(* The properties checked.                                                 *)
(***************************************************************************)
UniqueIds(ts) == \A i, j \in 1..Len(ts) : i # j => ts[i].id # ts[j].id

AllNumeric(ts) == \A i \in 1..Len(ts) : IsNumeric(ts[i].id)

\* The positions of the tasks of ts whose id is id, and the least of them.
Matches(ts, id) == {i \in 1..Len(ts) : ts[i].id = id}

LeastMatch(ts, id) == CHOOSE i \in Matches(ts, id) : \A j \in Matches(ts, id) : i <= j

\* The largest of the ids of ts read as numbers.
LargestId(ts) ==
    CHOOSE m \in {IntOf(ts[i].id) : i \in 1..Len(ts)} :
        \A i \in 1..Len(ts) : m >= IntOf(ts[i].id)

TimestampsOrdered(ts) == \A i \in 1..Len(ts) : ts[i].createdAt <= ts[i].updatedAt

StatusesValid(ts) == \A i \in 1..Len(ts) : ts[i].status \in Statuses

\* main() has loaded a store.
Started == pc # "start" /\ ~(last.op = "load" /\ last.raised)

\* C1: from an empty store or a loaded store whose ids are pairwise distinct
\* numeric strings, after any calls of add (any id), update (description
\* and/or status) and delete, no two tasks of the store have the same id.
C1_UniqueIds ==
    (UniqueIds(loaded) /\ AllNumeric(loaded)) => UniqueIds(tasks)

\* C1 witness: an add whose id was already taken went through on such a store.
C1_Witness ==
    /\ UniqueIds(loaded) /\ AllNumeric(loaded)
    /\ last.op = "add" /\ ~last.raised
    /\ IdTaken(prev, last.id)
    /\ Len(tasks) = Len(prev) + 1

\* C2: every add of a task whose id is empty or taken stores the task under
\* the decimal string of (the largest numeric id of the store) + 1, an id no
\* task of the store had.
C2_AddAssignsMaxPlusOne ==
    (last.op = "add" /\ NeedsNewId(prev, last.task)) =>
        /\ ~last.raised
        /\ Len(tasks) = Len(prev) + 1
        /\ tasks[Len(tasks)].id \notin Ids(prev)
        /\ AllNumeric(prev) /\ Len(prev) > 0
        /\ tasks[Len(tasks)].id = StrOf(LargestId(prev) + 1)

\* C3: on an empty store (the save directory in place) the add command
\* leaves exactly one task, with id "1", status "todo" and createdAt =
\* updatedAt.
C3_FirstAddGetsId1 ==
    (last.op = "add_task" /\ Len(prev) = 0 /\ prevFile.dir) =>
        /\ ~last.raised
        /\ Len(tasks) = 1
        /\ tasks[1].id = <<"1">>
        /\ tasks[1].status = "todo"
        /\ tasks[1].createdAt = tasks[1].updatedAt

\* C4: add never raises; the store grows by the new task, which is last, and
\* the tasks already there are unchanged and in their order.
C4_AddNeverFails ==
    last.op = "add" =>
        /\ ~last.raised
        /\ Len(tasks) = Len(prev) + 1
        /\ SubSeq(tasks, 1, Len(prev)) = prev
        /\ [tasks[Len(tasks)] EXCEPT !.id = last.task.id] = last.task

\* C5: update with an id no task has returns False and leaves the store as
\* it was (tasks, order, every field of every task).
C5_UpdateUnknownId ==
    (last.op = "update" /\ Matches(prev, last.id) = {}) =>
        (last.ret = "False" /\ tasks = prev)

\* C5 witness: such an update on a store that holds tasks.
C5_Witness ==
    last.op = "update" /\ Matches(prev, last.id) = {} /\ Len(prev) > 0

\* C6: delete with an id no task has returns False and leaves the store as
\* it was.
C6_DeleteUnknownId ==
    (last.op = "delete" /\ Matches(prev, last.id) = {}) =>
        (last.ret = "False" /\ tasks = prev)

\* C6 witness: such a delete on a store that holds tasks.
C6_Witness ==
    last.op = "delete" /\ Matches(prev, last.id) = {} /\ Len(prev) > 0

\* C7: delete with an id some task has returns True and removes the first
\* task with that id and nothing else: the tasks before it stay, the tasks
\* after it move up by one, unchanged.
C7_DeleteFirstMatch ==
    (last.op = "delete" /\ Matches(prev, last.id) # {}) =>
        LET i == LeastMatch(prev, last.id) IN
        /\ last.ret = "True"
        /\ Len(tasks) = Len(prev) - 1
        /\ \A j \in 1..(i - 1) : tasks[j] = prev[j]
        /\ \A j \in i..Len(tasks) : tasks[j] = prev[j + 1]

\* C7 witness: a delete whose id two tasks of the store had.
C7_Witness ==
    /\ last.op = "delete"
    /\ Cardinality(Matches(prev, last.id)) >= 2
    /\ Len(tasks) = Len(prev) - 1

\* C8: update with an id some task has returns True; on the first task with
\* that id the supplied fields take the supplied values and updatedAt the
\* current time; its other fields, the other tasks and the order stay.
C8_UpdateFrame ==
    (last.op = "update" /\ Matches(prev, last.id) # {}) =>
        LET i == LeastMatch(prev, last.id) IN
        /\ last.ret = "True"
        /\ Len(tasks) = Len(prev)
        /\ \A j \in 1..Len(prev) : j # i => tasks[j] = prev[j]
        /\ tasks[i].id = prev[i].id
        /\ tasks[i].createdAt = prev[i].createdAt
        /\ tasks[i].updatedAt = clock
        /\ tasks[i].description =
              IF "description" \in DOMAIN last.kwargs
              THEN last.kwargs["description"] ELSE prev[i].description
        /\ tasks[i].status =
              IF "status" \in DOMAIN last.kwargs
              THEN last.kwargs["status"] ELSE prev[i].status

\* C8 witness: an update of the status alone, on an id two tasks had, that
\* moved updatedAt.
C8_Witness ==
    /\ last.op = "update"
    /\ DOMAIN last.kwargs = {"status"}
    /\ Cardinality(Matches(prev, last.id)) >= 2
    /\ tasks[LeastMatch(prev, last.id)].updatedAt
          # prev[LeastMatch(prev, last.id)].updatedAt
    /\ tasks[LeastMatch(prev, last.id)].status
          # prev[LeastMatch(prev, last.id)].status

\* C9 as stated: with a clock that does not go backwards, from an empty store
\* or a loaded store in which createdAt <= updatedAt, every task has
\* createdAt <= updatedAt after any shell commands.
C9_TimestampsOrdered ==
    TimestampsOrdered(loaded) => TimestampsOrdered(tasks)

\* C9 as amended: the same, from a loaded store in which moreover no task
\* was created after the clock's reading at startup.
C9_TimestampsOrderedFromPast ==
    (/\ TimestampsOrdered(loaded)
     /\ \A i \in 1..Len(loaded) : loaded[i].createdAt <= clock0)
        => TimestampsOrdered(tasks)

\* C9 witness: from such a loaded store, a task was added and a task updated.
C9_Witness ==
    /\ Len(loaded) > 0
    /\ TimestampsOrdered(loaded)
    /\ \A i \in 1..Len(loaded) : loaded[i].createdAt <= clock0
    /\ Len(tasks) > Len(loaded)
    /\ last.op = "update_task" /\ last.ret = "updated"
    /\ clock > clock0

\* C10: once a store with valid statuses is loaded, every task of the store
\* and every record of the file that has a status has one of todo,
\* in_progress, done, whatever the user types.
C10_StatusesValid ==
    (Started /\ StatusesValid(loaded)) =>
        /\ StatusesValid(tasks)
        /\ \A i \in 1..Len(file.data) :
              "status" \in DOMAIN file.data[i] => file.data[i].status \in Statuses

\* C10 witness: the user typed a status outside the three for a task of a
\* valid store, after an update that was saved.
C10_Witness ==
    /\ Started /\ StatusesValid(loaded)
    /\ last.op = "update_task" /\ last.ret = "invalid_status"
    /\ last.kwargs["status"] = "bogus"
    /\ Len(file.data) > 0
    /\ \E i \in 1..Len(tasks) : tasks[i].status = "done"

\* Two tasks have the same key on the field order_by.
SameKey(order_by, x, y) == ~KeyLess(order_by, x, y) /\ ~KeyLess(order_by, y, x)

\* In the listing of ts, the task at position a comes before the one at b:
\* by key, and by store position when the keys are equal.
ListedBefore(ts, order_by, ascending, a, b) ==
    \/ IF ascending THEN KeyLess(order_by, ts[a], ts[b])
                    ELSE KeyLess(order_by, ts[b], ts[a])
    \/ SameKey(order_by, ts[a], ts[b]) /\ a < b

\* C11: list returns exactly the tasks whose status is the filter (all of
\* them without a filter), each once, in the order of the named field,
\* ascending or descending, tasks with equal keys in their store order; an
\* empty store gives an empty sequence.
C11_ListFilteredSorted ==
    last.op = "list" =>
        LET kw == last.kwargs
            M == IF kw.status = "" THEN 1..Len(prev)
                 ELSE {i \in 1..Len(prev) : prev[i].status = kw.status}
            out == last.out
        IN  /\ Len(out) = Cardinality(M)
            /\ \E idx \in [1..Len(out) -> M] :
                /\ \A k \in 1..Len(out) : out[k] = prev[idx[k]]
                /\ \A k \in 1..(Len(out) - 1) :
                      ListedBefore(prev, kw.order_by, kw.ascending, idx[k], idx[k + 1])

\* C11 witness: a descending, filtered listing that dropped a task and holds
\* two different tasks with equal keys.
C11_Witness ==
    /\ last.op = "list"
    /\ ~last.kwargs.ascending
    /\ last.kwargs.status # ""
    /\ Len(last.out) < Len(prev)
    /\ \E a, b \in 1..Len(last.out) :
          /\ a < b
          /\ last.out[a] # last.out[b]
          /\ SameKey(last.kwargs.order_by, last.out[a], last.out[b])

\* C12 as stated: for every list of tasks, load after save returns a list
\* equal to it: same length, same order, same five fields.
C12_RoundTrip ==
    (pc = "saved" /\ last.op = "load") =>
        (~last.raised /\ last.out = tasks)

\* C12 as amended: the same, for every list of tasks that all have an
\* updatedAt.
C12_RoundTripWithUpdatedAt ==
    (/\ pc = "saved" /\ last.op = "load"
     /\ \A i \in 1..Len(tasks) : tasks[i].updatedAt # None)
        => (~last.raised /\ last.out = tasks)

\* C12 witness: two tasks, one with a timestamp that is no whole second, came
\* back from load.
C12_Witness ==
    /\ pc = "saved" /\ last.op = "load" /\ ~last.raised
    /\ Len(tasks) = 2 /\ Len(last.out) = 2
    /\ \E i \in 1..2 : tasks[i].updatedAt # None
                        /\ tasks[i].updatedAt % TicksPerSec # 0

\* C13 as stated: load of a file that does not exist raises nothing, returns
\* an empty list and leaves the file in place with an empty collection; the
\* load after it returns an empty list too.
C13_LoadCreatesFile ==
    /\ (last.op = "load" /\ ~prevFile.exists) =>
          /\ ~last.raised /\ last.out = <<>>
          /\ file.exists /\ file.data = <<>>
    /\ (last.op = "load" /\ prevFile.exists /\ prevFile.data = <<>>) =>
          (~last.raised /\ last.out = <<>>)

\* C13 as amended: the same, when the directory of the file exists (the file
\* can be created).
C13_LoadCreatesFileInDir ==
    /\ (last.op = "load" /\ ~prevFile.exists) =>
          /\ ~last.raised /\ last.out = <<>>
          /\ prevFile.dir => (file.exists /\ file.data = <<>>)
    /\ (last.op = "load" /\ prevFile.exists /\ prevFile.data = <<>>) =>
          (~last.raised /\ last.out = <<>>)

\* C13 witness: a load found no file and left one.
C13_Witness ==
    last.op = "load" /\ ~prevFile.exists /\ prevFile.dir /\ file.exists

\* A record the claim calls malformed: no id, or a createdAt or updatedAt
\* that is missing or is no date-time text.
Malformed(rec) ==
    \/ "id" \notin DOMAIN rec
    \/ "createdAt" \notin DOMAIN rec
    \/ "updatedAt" \notin DOMAIN rec
    \/ ~IsoParses(rec.createdAt)
    \/ ~IsoParses(rec.updatedAt)

\* C17: load of an existing file with a malformed record raises, returns no
\* task and leaves the file as it was; a file whose records lack at most
\* description or status loads, with description "" and status "todo" for
\* the missing ones.
C17_MalformedIsFatal ==
    (last.op = "load" /\ prevFile.exists) =>
        IF \E i \in 1..Len(prevFile.data) : Malformed(prevFile.data[i])
        THEN last.raised /\ last.out = <<>> /\ file = prevFile
        ELSE /\ ~last.raised
             /\ Len(last.out) = Len(prevFile.data)
             /\ \A i \in 1..Len(prevFile.data) :
                  LET rec == prevFile.data[i]
                  IN  /\ last.out[i].id = rec.id
                      /\ "description" \notin DOMAIN rec
                            => last.out[i].description = ""
                      /\ "status" \notin DOMAIN rec
                            => last.out[i].status = "todo"

\* C17 witness: a load raised on a file whose first record is well formed
\* and whose second is not.
C17_Witness ==
    /\ last.op = "load" /\ last.raised /\ prevFile.exists
    /\ Len(prevFile.data) = 2
    /\ ~Malformed(prevFile.data[1])
    /\ Malformed(prevFile.data[2])

\* C14: each time the shell prompts for a command, reading the file gives
\* the tasks of the store, in the same order with the same field values, and
\* the file is in place when its directory exists.
C14_StoreFileAgree ==
    pc = "prompt" =>
        /\ ~load(file).raised
        /\ load(file).tasks = tasks
        /\ file.dir => file.exists

\* C14 witness: the shell prompts after a command that changed the store and
\* the file.
C14_Witness ==
    /\ pc = "prompt"
    /\ last.op \in {"add_task", "update_task", "delete_task"}
    /\ tasks # prev
    /\ file # prevFile
    /\ Len(tasks) > 0

\* C16 as stated: the update command with an id that matches no task, or with
\* an entered status that is not todo, in_progress or done, leaves store and
\* file as they were and the shell prompts again.
C16_UpdateAborts ==
    (/\ last.op = "update_task"
     /\ \/ ~IdTaken(prev, last.id)
        \/ (DOMAIN last.kwargs # {} /\ last.kwargs.status \notin Statuses))
        => (tasks = prev /\ file = prevFile /\ pc = "prompt")

\* C16 as amended: the same, the entered status being compared in lower case.
C16_UpdateAbortsLowered ==
    (/\ last.op = "update_task"
     /\ \/ ~IdTaken(prev, last.id)
        \/ (DOMAIN last.kwargs # {} /\ Lower(last.kwargs.status) \notin Statuses))
        => (tasks = prev /\ file = prevFile /\ pc = "prompt")

\* C16 witness: a description and a status that is none of the three were
\* entered for a task of the store.
C16_Witness ==
    /\ last.op = "update_task"
    /\ IdTaken(prev, last.id)
    /\ DOMAIN last.kwargs # {}
    /\ last.kwargs.description = "b"
    /\ last.kwargs.status = "bogus"
    /\ pc = "prompt"

\* C19: the update command on a task of the store, with a blank description
\* and a status that is todo, in_progress or done, keeps the description of
\* the task, sets its status to the entered one and its updatedAt to the
\* time of the command.
C19_BlankKeepsDescription ==
    (/\ last.op = "update_task"
     /\ IdTaken(prev, last.id)
     /\ DOMAIN last.kwargs # {}
     /\ last.kwargs.description = ""
     /\ last.kwargs.status \in Statuses)
        => LET i == LeastMatch(prev, last.id)
           IN  /\ Len(tasks) = Len(prev)
               /\ tasks[i].description = prev[i].description
               /\ tasks[i].status = last.kwargs.status
               /\ tasks[i].updatedAt = clock

\* C19 witness: such a command on a task with a description, another status
\* and an earlier updatedAt.
C19_Witness ==
    /\ last.op = "update_task"
    /\ IdTaken(prev, last.id)
    /\ DOMAIN last.kwargs # {}
    /\ last.kwargs.description = ""
    /\ last.kwargs.status \in Statuses
    /\ LET i == LeastMatch(prev, last.id)
       IN  /\ prev[i].description # ""
           /\ prev[i].status # last.kwargs.status
           /\ prev[i].updatedAt < tasks[i].updatedAt

\* C15: no add, update or delete changes the id of a task that was in the
\* store before the call and is in it after: add and update leave the id at
\* every position that was there, delete leaves the ids of prev with at most
\* one position taken out.
C15_IdStable ==
    /\ last.op \in {"add", "update"} =>
          /\ Len(tasks) >= Len(prev)
          /\ \A i \in 1..Len(prev) : tasks[i].id = prev[i].id
    /\ last.op = "update" => Len(tasks) = Len(prev)
    /\ last.op = "delete" =>
          \E k \in 0..Len(prev) :
              /\ Len(tasks) = Len(prev) - (IF k = 0 THEN 0 ELSE 1)
              /\ \A j \in 1..Len(tasks) :
                    tasks[j].id = prev[IF k = 0 \/ j < k THEN j ELSE j + 1].id

\* C15 witness: an add with an id a task of the store had put the new task in
\* under another id.
C15_Witness ==
    /\ last.op = "add"
    /\ ~last.raised
    /\ IdTaken(prev, last.id)
    /\ Len(tasks) = Len(prev) + 1
    /\ tasks[Len(tasks)].id # last.id

====
